---- MODULE Spec2Model ----
(***************************************************************************)
(* Model of the interaction endpoints of the twitter-backend API           *)
(* (app/api/interactions.py, app/api/tweets.py, app/api/users.py,          *)
(* app/api/auth.py, app/services/users_service.py) over the relational     *)
(* schema of app/models/models.py.                                         *)
(*                                                                         *)
(* The database is the state.  Tables whose rows carry no uniqueness       *)
(* constraint in models.py (likes, retweets, bookmarks, follows,           *)
(* notifications) are bags: the model keeps, per key, the NUMBER of rows,  *)
(* so that a duplicate row is a state the model can be in.                 *)
(***************************************************************************)
EXTENDS Integers, FiniteSets, Sequences, Bags, TLC

\* ------------------------------------------------------------------ bounds
MaxUsers == 2
MaxTweets == 2
MaxReplies == 1
MaxNotifications == 1
MaxRows == 2
MaxSuggestUsers == 3
MaxExpressions == 3
MaxLimit == 2
MaxFollows == 1
MaxResults == 2

UserIds == 1..MaxUsers
TweetIds == 1..(MaxTweets + MaxReplies)
Emails == 1..MaxUsers
Usernames == 1..MaxUsers

\* tweet_id of a Notification that references no tweet (NULL column)
NoTweet == 0

\* Python's None, where a string or a record is expected
None == "None"

VARIABLES
    users,          \* table users: id -> [email, username, is_active]
    tweets,         \* table tweets: id -> [user_id, likes_count, retweets_count, replies_count]
    next_tweet_id,  \* the tweets.id sequence
    likes,          \* table likes: bag of <<user_id, tweet_id>>
    retweets,       \* table retweets: bag of <<user_id, original_tweet_id>>
    bookmarks,      \* table bookmarks: bag of <<user_id, tweet_id>>
    follows,        \* table follows: bag of <<follower_id, following_id>>
    replies,        \* table replies: set of [tweet_id, parent_tweet_id]
    notifications,  \* table notifications: bag of [user_id, type, sender_id, tweet_id]
    facial_expressions, \* table facial_expressions, oldest first:
                    \* sequence of [user_id, emotion, confidence, recent]
    pending,        \* requests that have run their queries and not yet committed
    last            \* the last response sent: [op, status, detail]

db == <<users, tweets, next_tweet_id, likes, retweets, bookmarks, follows, replies, notifications,
       facial_expressions>>
vars == <<users, tweets, next_tweet_id, likes, retweets, bookmarks, follows, replies, notifications,
         facial_expressions, pending, last>>

\* ------------------------------------------------------------------ tables
User(email, username) == [email |-> email, username |-> username, is_active |-> TRUE]

Tweet(user_id) == [user_id |-> user_id, likes_count |-> 0, retweets_count |-> 0, replies_count |-> 0]

Reply(tweet_id, parent_tweet_id) == [tweet_id |-> tweet_id, parent_tweet_id |-> parent_tweet_id]

Notification(user_id, type, sender_id, tweet_id) ==
    [user_id |-> user_id, type |-> type, sender_id |-> sender_id, tweet_id |-> tweet_id]

Init ==
    /\ users = <<>>
    /\ tweets = <<>>
    /\ next_tweet_id = 1
    /\ likes = EmptyBag
    /\ retweets = EmptyBag
    /\ bookmarks = EmptyBag
    /\ follows = EmptyBag
    /\ replies = {}
    /\ notifications = EmptyBag
    /\ facial_expressions = <<>>
    /\ pending = EmptyBag
    /\ last = [op |-> "none", status |-> 0, detail |-> ""]

\* ------------------------------------------------------------------ helpers
\* number of rows of an edge table with the key <<actor, target>>
Rows(table, key) == CopiesIn(key, table)

\* number of rows of an edge table
RowCount(table) == BagCardinality(table)

\* the rows of an edge table whose target column is x
RowsOf(table, x) == [k \in {k \in BagToSet(table) : k[2] = x} |-> table[k]]

\* number of rows of an edge table whose target column is x
RowsOn(table, x) == BagCardinality(RowsOf(table, x))

\* raise HTTPException(status_code, detail)
HTTPException(status_code, detail) == [status_code |-> status_code, detail |-> detail]

\* no exception was raised
OK == [status_code |-> 200, detail |-> ""]

\* the response of a handler: its operation, HTTP status and error detail
Respond(op, status, detail) == last' = [op |-> op, status |-> status, detail |-> detail]

\* the response of a handler that raised the HTTPException e before any write
Raise(op, e) ==
    /\ Respond(op, e.status_code, e.detail)
    /\ UNCHANGED <<db, pending>>

\* db.add(row) on an edge table
AddRow(table, key) == table (+) SetToBag({key})

\* db.delete(row) on an edge table
DeleteRow(table, key) == table (-) SetToBag({key})

\* the bound counts the rows of the edge tables and the inserts not yet committed
HasRoom ==
    RowCount(likes) + RowCount(retweets) + RowCount(bookmarks) + RowCount(follows)
        + Cardinality(replies) + BagCardinality(pending) < MaxRows

\* db.add(notification): the bound keeps the table finite
AddNotification(n) ==
    /\ BagCardinality(notifications) < MaxNotifications
    /\ notifications' = notifications (+) SetToBag({n})

\* fault: the decrement without its floor
Max0_no_floor(n) == n

\* max(0, n)
Max0(n) == IF n > 0 THEN n ELSE 0

\* fault: the dependency without the is_active test
get_current_user_any_user(u) ==
    IF u \notin DOMAIN users THEN HTTPException(401, "Could not validate credentials")
    ELSE OK

\* the dependency that resolves the bearer token of user id u
get_current_user(u) ==
    IF u \notin DOMAIN users THEN HTTPException(401, "Could not validate credentials")
    ELSE IF ~users[u].is_active THEN HTTPException(403, "Inactive user")
    ELSE OK

\* ------------------------------------------------------------------ users_service.py
\* no row: the None a lookup returns
NoUser == 0

\* get_user_by_email
get_user_by_email(email) ==
    IF \E u \in DOMAIN users : users[u].email = email
    THEN CHOOSE u \in DOMAIN users : users[u].email = email
    ELSE NoUser

\* users_service.py authenticate_user; password_ok is the result of verify_password
authenticate_user(email, password_ok) ==
    IF get_user_by_email(email) = NoUser THEN NoUser
    ELSE IF ~password_ok THEN NoUser
    ELSE IF ~users[get_user_by_email(email)].is_active THEN NoUser
    ELSE get_user_by_email(email)

\* the fields of the UserUpdate schema, and the request bodies made of them
UserUpdateFields ==
    {"firstname", "lastname", "display_name", "bio", "profile_image_url", "banner_image_url"}

UpdateData ==
    UNION {[K -> {"text", None}] : K \in {S \in SUBSET UserUpdateFields : Cardinality(S) <= 1}}

\* users_service.py update_user: setattr for every key the row has, but password
\* and id, when the value is not None
update_user(user_id, kwargs) ==
    [users EXCEPT ![user_id] =
        [a \in DOMAIN @ |->
            IF a \in DOMAIN kwargs \ {"password", "id"} /\ kwargs[a] # None
            THEN kwargs[a]
            ELSE @[a]]]

\* fault: delete_user that also deletes the tweets of the user
delete_user_with_tweets(user_id) ==
    IF user_id \notin DOMAIN users
    THEN /\ Respond("delete_user", 0, "False")
         /\ UNCHANGED <<db, pending>>
    ELSE /\ users' = [users EXCEPT ![user_id].is_active = FALSE]
         /\ tweets' = [t \in {x \in DOMAIN tweets : tweets[x].user_id # user_id} |-> tweets[t]]
         /\ Respond("delete_user", 0, "True")
         /\ UNCHANGED <<facial_expressions, next_tweet_id, likes, retweets, bookmarks, follows, replies,
                        notifications, pending>>

\* delete_user returns a bool, not an HTTP response: status 0, detail the bool
delete_user(user_id) ==
    IF user_id \notin DOMAIN users
    THEN /\ Respond("delete_user", 0, "False")
         /\ UNCHANGED <<db, pending>>
    ELSE /\ users' = [users EXCEPT ![user_id].is_active = FALSE]
         /\ Respond("delete_user", 0, "True")
         /\ UNCHANGED <<facial_expressions, tweets, next_tweet_id, likes, retweets, bookmarks, follows, replies,
                        notifications, pending>>

\* ------------------------------------------------------------------ auth.py
\* fault: register without the lookup of the username
register_email_only(email, username) ==
    IF \E u \in DOMAIN users : users[u].email = email
    THEN Raise("register", HTTPException(400, "Email already registered"))
    ELSE /\ Len(users) < MaxUsers
         /\ users' = Append(users, User(email, username))
         /\ Respond("register", 201, "")
         /\ UNCHANGED <<facial_expressions, tweets, next_tweet_id, likes, retweets, bookmarks, follows,
                        replies, notifications, pending>>

register(email, username) ==
    IF \E u \in DOMAIN users : users[u].email = email
    THEN Raise("register", HTTPException(400, "Email already registered"))
    ELSE IF \E u \in DOMAIN users : users[u].username = username
    THEN Raise("register", HTTPException(400, "Username already taken"))
    ELSE /\ Len(users) < MaxUsers
         /\ users' = Append(users, User(email, username))
         /\ Respond("register", 201, "")
         /\ UNCHANGED <<facial_expressions, tweets, next_tweet_id, likes, retweets, bookmarks, follows,
                        replies, notifications, pending>>


\* auth.py login
login(email, password_ok) ==
    IF authenticate_user(email, password_ok) = NoUser
    THEN Raise("login", HTTPException(401, "Incorrect email or password"))
    ELSE /\ Respond("login", 200, "")
         /\ UNCHANGED <<db, pending>>

\* users.py update_profile
update_profile(u, user_data) ==
    IF get_current_user(u) # OK THEN Raise("update_profile", get_current_user(u))
    ELSE /\ users' = update_user(u, user_data)
         /\ Respond("update_profile", 200, "")
         /\ UNCHANGED <<facial_expressions, tweets, next_tweet_id, likes, retweets, bookmarks, follows,
                        replies, notifications, pending>>
\* ------------------------------------------------------------------ tweets.py
create_tweet(u) ==
    IF get_current_user(u) # OK THEN Raise("create_tweet", get_current_user(u))
    ELSE /\ next_tweet_id <= MaxTweets
         /\ tweets' = (next_tweet_id :> Tweet(u)) @@ tweets
         /\ next_tweet_id' = next_tweet_id + 1
         /\ Respond("create_tweet", 201, "")
         /\ UNCHANGED <<facial_expressions, users, likes, retweets, bookmarks, follows, replies,
                        notifications, pending>>

\* the rows of an edge table left by the ORM cascade of db.delete(tweet)
CascadeRows(table, t) == table (-) RowsOf(table, t)

\* fault: the cascade of Tweet.reply alone, without that of Tweet.replies
CascadeReplies_child_only(t) == {r \in replies : r.tweet_id # t}

\* the Reply rows left by the cascade of Tweet.reply and Tweet.replies
CascadeReplies(t) == {r \in replies : r.tweet_id # t /\ r.parent_tweet_id # t}

\* fault: a cascade that empties the notifications table
CascadeNotifications_all(t) == EmptyBag

\* the Notification rows left by the cascade of Tweet.notifications
CascadeNotifications(t) ==
    LET kept == {n \in BagToSet(notifications) : n.tweet_id # t}
    IN [n \in kept |-> notifications[n]]

\* fault: delete_tweet without the ownership test
delete_tweet_check_no_owner(u, t) ==
    IF get_current_user(u) # OK THEN get_current_user(u)
    ELSE IF t \notin DOMAIN tweets THEN HTTPException(404, "Tweet not found")
    ELSE OK

delete_tweet_check(u, t) ==
    IF get_current_user(u) # OK THEN get_current_user(u)
    ELSE IF t \notin DOMAIN tweets THEN HTTPException(404, "Tweet not found")
    ELSE IF tweets[t].user_id # u
    THEN HTTPException(403, "Not authorized to delete this tweet")
    ELSE OK

\* fault: delete_tweet that deletes the reply tweets of the tweet with it
delete_tweet_with_children(u, t) ==
    IF delete_tweet_check(u, t) # OK THEN Raise("delete_tweet", delete_tweet_check(u, t))
    ELSE /\ tweets' = [x \in DOMAIN tweets \ ({t} \cup {r.tweet_id : r \in {y \in replies :
                                                        y.parent_tweet_id = t}})
                            |-> tweets[x]]
         /\ likes' = CascadeRows(likes, t)
         /\ retweets' = CascadeRows(retweets, t)
         /\ bookmarks' = CascadeRows(bookmarks, t)
         /\ replies' = CascadeReplies(t)
         /\ notifications' = CascadeNotifications(t)
         /\ Respond("delete_tweet", 200, "")
         /\ UNCHANGED <<facial_expressions, users, next_tweet_id, follows, pending>>

delete_tweet(u, t) ==
    IF delete_tweet_check(u, t) # OK THEN Raise("delete_tweet", delete_tweet_check(u, t))
    ELSE /\ tweets' = [x \in DOMAIN tweets \ {t} |-> tweets[x]]
         /\ likes' = CascadeRows(likes, t)
         /\ retweets' = CascadeRows(retweets, t)
         /\ bookmarks' = CascadeRows(bookmarks, t)
         /\ replies' = CascadeReplies(t)
         /\ notifications' = CascadeNotifications(t)
         /\ Respond("delete_tweet", 200, "")
         /\ UNCHANGED <<facial_expressions, users, next_tweet_id, follows, pending>>

\* ------------------------------------------------------------------ interactions.py
\* fault: the notification without the "actor is not the owner" test
NotifyOwner_always(type, u, t) ==
    AddNotification(Notification(tweets[t].user_id, type, u, t))

\* fault: the notification addressed to the sender instead of the owner
NotifyOwner_to_sender(type, u, t) ==
    IF tweets[t].user_id # u
    THEN AddNotification(Notification(u, type, u, t))
    ELSE UNCHANGED notifications

\* the Notification a create-edge handler adds for the owner of the target tweet
NotifyOwner(type, u, t) ==
    IF tweets[t].user_id # u
    THEN AddNotification(Notification(tweets[t].user_id, type, u, t))
    ELSE UNCHANGED notifications

\* fault: like_tweet without the "already liked" query
like_tweet_check_no_duplicate(u, t) ==
    IF get_current_user(u) # OK THEN get_current_user(u)
    ELSE IF t \notin DOMAIN tweets THEN HTTPException(404, "Tweet not found")
    ELSE OK

\* lines 22-33 of like_tweet: the queries, and the exception they lead to
like_tweet_check(u, t) ==
    IF get_current_user(u) # OK THEN get_current_user(u)
    ELSE IF t \notin DOMAIN tweets THEN HTTPException(404, "Tweet not found")
    ELSE IF Rows(likes, <<u, t>>) > 0 THEN HTTPException(400, "Already liked")
    ELSE OK

\* fault: a commit after db.add(like), before the counter is written
like_tweet_write_row_only(u, t, seen) ==
    /\ likes' = AddRow(likes, <<u, t>>)
    /\ NotifyOwner("like", u, t)
    /\ Respond("like_tweet", 201, "")
    /\ UNCHANGED <<facial_expressions, users, tweets, next_tweet_id, retweets, bookmarks, follows, replies>>

\* lines 36-53 of like_tweet: the writes of a request that read likes_count = seen
like_tweet_write(u, t, seen) ==
    /\ likes' = AddRow(likes, <<u, t>>)
    /\ tweets' = [tweets EXCEPT ![t].likes_count = seen + 1]
    /\ NotifyOwner("like", u, t)
    /\ Respond("like_tweet", 201, "")
    /\ UNCHANGED <<facial_expressions, users, next_tweet_id, retweets, bookmarks, follows, replies>>

like_tweet(u, t) ==
    IF like_tweet_check(u, t) # OK THEN Raise("like_tweet", like_tweet_check(u, t))
    ELSE /\ HasRoom
         /\ like_tweet_write(u, t, tweets[t].likes_count)
         /\ UNCHANGED pending

\* fault: unlike_tweet that looks for a like of the tweet by any user
unlike_tweet_check_any_user(u, t) ==
    IF get_current_user(u) # OK THEN get_current_user(u)
    ELSE IF RowsOn(likes, t) = 0 THEN HTTPException(404, "Like not found")
    ELSE OK

\* lines 66-72 of unlike_tweet
unlike_tweet_check(u, t) ==
    IF get_current_user(u) # OK THEN get_current_user(u)
    ELSE IF Rows(likes, <<u, t>>) = 0 THEN HTTPException(404, "Like not found")
    ELSE OK

\* fault: unlike_tweet that also deletes the notifications of the like
unlike_tweet_retracts(u, t) ==
    IF unlike_tweet_check(u, t) # OK THEN Raise("unlike_tweet", unlike_tweet_check(u, t))
    ELSE /\ tweets' = IF t \in DOMAIN tweets
                      THEN [tweets EXCEPT ![t].likes_count = Max0(@ - 1)]
                      ELSE tweets
         /\ likes' = DeleteRow(likes, <<u, t>>)
         /\ notifications' = notifications (-) SetToBag({n \in BagToSet(notifications) :
                                n.type = "like" /\ n.sender_id = u /\ n.tweet_id = t})
         /\ Respond("unlike_tweet", 200, "")
         /\ UNCHANGED <<facial_expressions, users, next_tweet_id, retweets, bookmarks, follows, replies,
                        pending>>

\* fault: unlike_tweet that deletes the row and forgets the counter
unlike_tweet_no_decrement(u, t) ==
    IF unlike_tweet_check(u, t) # OK THEN Raise("unlike_tweet", unlike_tweet_check(u, t))
    ELSE /\ likes' = DeleteRow(likes, <<u, t>>)
         /\ Respond("unlike_tweet", 200, "")
         /\ UNCHANGED <<facial_expressions, users, tweets, next_tweet_id, retweets, bookmarks, follows, replies,
                        notifications, pending>>

unlike_tweet(u, t) ==
    IF unlike_tweet_check(u, t) # OK THEN Raise("unlike_tweet", unlike_tweet_check(u, t))
    ELSE /\ tweets' = IF t \in DOMAIN tweets
                      THEN [tweets EXCEPT ![t].likes_count = Max0(@ - 1)]
                      ELSE tweets
         /\ likes' = DeleteRow(likes, <<u, t>>)
         /\ Respond("unlike_tweet", 200, "")
         /\ UNCHANGED <<facial_expressions, users, next_tweet_id, retweets, bookmarks, follows, replies,
                        notifications, pending>>

\* lines 91-101 of retweet: the queries, and the exception they lead to
retweet_check(u, t) ==
    IF get_current_user(u) # OK THEN get_current_user(u)
    ELSE IF t \notin DOMAIN tweets THEN HTTPException(404, "Tweet not found")
    ELSE IF Rows(retweets, <<u, t>>) > 0 THEN HTTPException(400, "Already retweeted")
    ELSE OK

\* lines 103-122 of retweet: the writes of a request that read retweets_count = seen
retweet_write(u, t, seen) ==
    /\ retweets' = AddRow(retweets, <<u, t>>)
    /\ tweets' = [tweets EXCEPT ![t].retweets_count = seen + 1]
    /\ NotifyOwner("retweet", u, t)
    /\ Respond("retweet", 201, "")
    /\ UNCHANGED <<facial_expressions, users, next_tweet_id, likes, bookmarks, follows, replies>>

retweet(u, t) ==
    IF retweet_check(u, t) # OK THEN Raise("retweet", retweet_check(u, t))
    ELSE /\ HasRoom
         /\ retweet_write(u, t, tweets[t].retweets_count)
         /\ UNCHANGED pending

\* lines 135-141 of delete_retweet
delete_retweet_check(u, t) ==
    IF get_current_user(u) # OK THEN get_current_user(u)
    ELSE IF Rows(retweets, <<u, t>>) = 0 THEN HTTPException(404, "Retweet not found")
    ELSE OK

\* fault: delete_retweet that removes every retweet of the tweet, not the caller's
delete_retweet_all_users(u, t) ==
    IF delete_retweet_check(u, t) # OK
    THEN Raise("delete_retweet", delete_retweet_check(u, t))
    ELSE /\ tweets' = IF t \in DOMAIN tweets
                      THEN [tweets EXCEPT ![t].retweets_count = Max0(@ - 1)]
                      ELSE tweets
         /\ retweets' = CascadeRows(retweets, t)
         /\ Respond("delete_retweet", 200, "")
         /\ UNCHANGED <<facial_expressions, users, next_tweet_id, likes, bookmarks, follows, replies,
                        notifications, pending>>

delete_retweet(u, t) ==
    IF delete_retweet_check(u, t) # OK
    THEN Raise("delete_retweet", delete_retweet_check(u, t))
    ELSE /\ tweets' = IF t \in DOMAIN tweets
                      THEN [tweets EXCEPT ![t].retweets_count = Max0(@ - 1)]
                      ELSE tweets
         /\ retweets' = DeleteRow(retweets, <<u, t>>)
         /\ Respond("delete_retweet", 200, "")
         /\ UNCHANGED <<facial_expressions, users, next_tweet_id, likes, bookmarks, follows, replies,
                        notifications, pending>>

\* lines 160-162 of reply_to_tweet
reply_to_tweet_check(u, p) ==
    IF get_current_user(u) # OK THEN get_current_user(u)
    ELSE IF p \notin DOMAIN tweets THEN HTTPException(404, "Parent tweet not found")
    ELSE OK

reply_to_tweet(u, p) ==
    IF reply_to_tweet_check(u, p) # OK
    THEN Raise("reply_to_tweet", reply_to_tweet_check(u, p))
    ELSE /\ next_tweet_id <= MaxTweets + MaxReplies
         /\ HasRoom
         /\ tweets' = (next_tweet_id :> Tweet(u)) @@
                      [tweets EXCEPT ![p].replies_count = @ + 1]
         /\ next_tweet_id' = next_tweet_id + 1
         /\ replies' = replies \cup {Reply(next_tweet_id, p)}
         /\ NotifyOwner("reply", u, p)
         /\ Respond("reply_to_tweet", 201, "")
         /\ UNCHANGED <<facial_expressions, users, likes, retweets, bookmarks, follows, pending>>

\* fault: bookmark_tweet without the lookup of the tweet
bookmark_tweet_check_no_lookup(u, t) ==
    IF get_current_user(u) # OK THEN get_current_user(u)
    ELSE IF Rows(bookmarks, <<u, t>>) > 0 THEN HTTPException(400, "Already bookmarked")
    ELSE OK

\* fault: bookmark_tweet without the "already bookmarked" query
bookmark_tweet_check_no_duplicate(u, t) ==
    IF get_current_user(u) # OK THEN get_current_user(u)
    ELSE IF t \notin DOMAIN tweets THEN HTTPException(404, "Tweet not found")
    ELSE OK

\* lines 268-278 of bookmark_tweet
bookmark_tweet_check(u, t) ==
    IF get_current_user(u) # OK THEN get_current_user(u)
    ELSE IF t \notin DOMAIN tweets THEN HTTPException(404, "Tweet not found")
    ELSE IF Rows(bookmarks, <<u, t>>) > 0 THEN HTTPException(400, "Already bookmarked")
    ELSE OK

\* fault: bookmark_tweet with the notification of the other create-edge handlers
bookmark_tweet_notifies(u, t) ==
    IF bookmark_tweet_check(u, t) # OK
    THEN Raise("bookmark_tweet", bookmark_tweet_check(u, t))
    ELSE /\ HasRoom
         /\ bookmarks' = AddRow(bookmarks, <<u, t>>)
         /\ NotifyOwner("bookmark", u, t)
         /\ Respond("bookmark_tweet", 201, "")
         /\ UNCHANGED <<facial_expressions, users, tweets, next_tweet_id, likes, retweets, follows, replies,
                        pending>>

bookmark_tweet(u, t) ==
    IF bookmark_tweet_check(u, t) # OK
    THEN Raise("bookmark_tweet", bookmark_tweet_check(u, t))
    ELSE /\ HasRoom
         /\ bookmarks' = AddRow(bookmarks, <<u, t>>)
         /\ Respond("bookmark_tweet", 201, "")
         /\ UNCHANGED <<facial_expressions, users, tweets, next_tweet_id, likes, retweets, follows, replies,
                        notifications, pending>>

\* lines 295-301 of delete_bookmark
delete_bookmark_check(u, t) ==
    IF get_current_user(u) # OK THEN get_current_user(u)
    ELSE IF Rows(bookmarks, <<u, t>>) = 0 THEN HTTPException(404, "Bookmark not found")
    ELSE OK

delete_bookmark(u, t) ==
    IF delete_bookmark_check(u, t) # OK
    THEN Raise("delete_bookmark", delete_bookmark_check(u, t))
    ELSE /\ bookmarks' = DeleteRow(bookmarks, <<u, t>>)
         /\ Respond("delete_bookmark", 200, "")
         /\ UNCHANGED <<facial_expressions, users, tweets, next_tweet_id, likes, retweets, follows, replies,
                        notifications, pending>>

\* fault: follow_user without the "cannot follow yourself" test
follow_user_check_no_self(u, v) ==
    IF get_current_user(u) # OK THEN get_current_user(u)
    ELSE IF v \notin DOMAIN users THEN HTTPException(404, "User not found")
    ELSE IF Rows(follows, <<u, v>>) > 0
    THEN HTTPException(400, "Already following this user")
    ELSE OK

\* lines 349-364 of follow_user
follow_user_check(u, v) ==
    IF get_current_user(u) # OK THEN get_current_user(u)
    ELSE IF v \notin DOMAIN users THEN HTTPException(404, "User not found")
    ELSE IF v = u THEN HTTPException(400, "Cannot follow yourself")
    ELSE IF Rows(follows, <<u, v>>) > 0
    THEN HTTPException(400, "Already following this user")
    ELSE OK

follow_user(u, v) ==
    IF follow_user_check(u, v) # OK THEN Raise("follow_user", follow_user_check(u, v))
    ELSE /\ HasRoom
         /\ follows' = AddRow(follows, <<u, v>>)
         /\ AddNotification(Notification(v, "follow", u, NoTweet))
         /\ Respond("follow_user", 201, "")
         /\ UNCHANGED <<facial_expressions, users, tweets, next_tweet_id, likes, retweets, bookmarks, replies,
                        pending>>

\* lines 392-398 of unfollow_user
unfollow_user_check(u, v) ==
    IF get_current_user(u) # OK THEN get_current_user(u)
    ELSE IF Rows(follows, <<u, v>>) = 0
    THEN HTTPException(404, "Not following this user")
    ELSE OK

\* fault: unfollow_user that also deletes the notification of the follow
unfollow_user_retracts(u, v) ==
    IF unfollow_user_check(u, v) # OK
    THEN Raise("unfollow_user", unfollow_user_check(u, v))
    ELSE /\ follows' = DeleteRow(follows, <<u, v>>)
         /\ notifications' =
                notifications (-) SetToBag({Notification(v, "follow", u, NoTweet)})
         /\ Respond("unfollow_user", 200, "")
         /\ UNCHANGED <<facial_expressions, users, tweets, next_tweet_id, likes, retweets, bookmarks, replies,
                        pending>>

unfollow_user(u, v) ==
    IF unfollow_user_check(u, v) # OK
    THEN Raise("unfollow_user", unfollow_user_check(u, v))
    ELSE /\ follows' = DeleteRow(follows, <<u, v>>)
         /\ Respond("unfollow_user", 200, "")
         /\ UNCHANGED <<facial_expressions, users, tweets, next_tweet_id, likes, retweets, bookmarks, replies,
                        notifications, pending>>

\* ------------------------------------------------------------------ read paths
\* a request without a bearer token, or with one that decode_token rejects: the
\* dependency get_current_user finds no user for it
Anonymous == 0

Viewers == {Anonymous} \cup UserIds

\* the response of a read handler: status 200 and the list it returns, as a
\* function from the ids of the returned tweets to the keys each one carries
RespondBody(op, body) ==
    last' = [op |-> op, status |-> 200, detail |-> "", body |-> body]

\* db.query(Edge).filter(user_id == current_user.id, tweet_id == tweet.id).first() is not None
Exists(table, v, t) == Rows(table, <<v, t>>) > 0

\* tweets.py get_tweets: every tweet (limit defaults to 20, above the bound)
get_tweets(v) ==
    IF get_current_user(v) # OK THEN Raise("get_tweets", get_current_user(v))
    ELSE /\ RespondBody("get_tweets",
                [t \in DOMAIN tweets |->
                    [is_liked |-> Exists(likes, v, t),
                     is_retweeted |-> Exists(retweets, v, t),
                     is_bookmarked |-> Exists(bookmarks, v, t)]])
         /\ UNCHANGED <<db, pending>>

\* users.py get_user_tweets: the tweets of user_id
get_user_tweets(v, user_id) ==
    IF get_current_user(v) # OK THEN Raise("get_user_tweets", get_current_user(v))
    ELSE /\ RespondBody("get_user_tweets",
                [t \in {x \in DOMAIN tweets : tweets[x].user_id = user_id} |->
                    [is_liked |-> Exists(likes, v, t),
                     is_retweeted |-> Exists(retweets, v, t),
                     is_bookmarked |-> Exists(bookmarks, v, t)]])
         /\ UNCHANGED <<db, pending>>

\* the tweets joined to the Reply rows whose parent is tweet_id
RepliesTo(tweet_id) ==
    {r.tweet_id : r \in {x \in replies : x.parent_tweet_id = tweet_id}} \cap DOMAIN tweets

\* tweets.py get_tweet_replies: each reply carries is_liked only
tweets_get_tweet_replies(v, tweet_id) ==
    IF get_current_user(v) # OK THEN Raise("get_tweet_replies", get_current_user(v))
    ELSE /\ RespondBody("get_tweet_replies",
                [t \in RepliesTo(tweet_id) |-> [is_liked |-> Exists(likes, v, t)]])
         /\ UNCHANGED <<db, pending>>

\* interactions.py get_tweet_replies
get_tweet_replies(v, tweet_id) ==
    IF get_current_user(v) # OK THEN Raise("get_tweet_replies", get_current_user(v))
    ELSE /\ RespondBody("get_tweet_replies",
                [t \in RepliesTo(tweet_id) |->
                    [is_liked |-> Exists(likes, v, t),
                     is_retweeted |-> Exists(retweets, v, t),
                     is_bookmarked |-> Exists(bookmarks, v, t)]])
         /\ UNCHANGED <<db, pending>>

\* interactions.py get_bookmarks: the bookmarked tweets, each with is_liked only
get_bookmarks(v) ==
    IF get_current_user(v) # OK THEN Raise("get_bookmarks", get_current_user(v))
    ELSE /\ RespondBody("get_bookmarks",
                [t \in {x \in DOMAIN tweets : Exists(bookmarks, v, x)} |->
                    [is_liked |-> Exists(likes, v, t)]])
         /\ UNCHANGED <<db, pending>>


\* ------------------------------------------------------------------ api/users.py (suggestions)
Emotions == {"happy", "sad"}

\* a FacialExpression row; `recent` stands for created_at >= now - 24 hours
FacialExpression(user_id, emotion, confidence, recent) ==
    [user_id |-> user_id, emotion |-> emotion, confidence |-> confidence, recent |-> recent]

\* positions of the rows of the last 24 hours, of one emotion (or of any when e = None)
RecentRows(e) ==
    {i \in DOMAIN facial_expressions :
        /\ facial_expressions[i].recent
        /\ e \in {None, facial_expressions[i].emotion}}

\* .filter(user_id == c).filter(created_at >= now - 24h).order_by(created_at.desc()).first()
recent_expression(c) ==
    LET mine == {i \in RecentRows(None) : facial_expressions[i].user_id = c}
    IN  IF mine = {} THEN None
        ELSE facial_expressions[CHOOSE i \in mine : \A j \in mine : j <= i].emotion

similar_emotion_users_any_age(e) ==
    {facial_expressions[i].user_id :
        i \in {j \in DOMAIN facial_expressions : facial_expressions[j].emotion = e}}

\* the subquery: user ids with an expression of that emotion in the last 24 hours
similar_emotion_users(e) == {facial_expressions[i].user_id : i \in RecentRows(e)}

\* the base query: not the caller, not a user the caller follows, active
suggestions_query(c) ==
    {u \in DOMAIN users :
        /\ u # c
        /\ Rows(follows, <<c, u>>) = 0
        /\ users[u].is_active}

\* .order_by(desc(User.created_at)).limit(n).all(): users are created in id order
RECURSIVE NewestFirst(_, _)
NewestFirst(S, n) ==
    IF S = {} \/ n <= 0 THEN <<>>
    ELSE LET u == CHOOSE x \in S : \A y \in S : y <= x
         IN  <<u>> \o NewestFirst(S \ {u}, n - 1)

Ids(seq) == {seq[i] : i \in DOMAIN seq}

suggestions_fill_any(c, limit) ==
    LET emotion_based == NewestFirst(suggestions_query(c)
                            \cap similar_emotion_users(recent_expression(c)), limit)
    IN  IF recent_expression(c) = None THEN NewestFirst(suggestions_query(c), limit)
        ELSE IF Len(emotion_based) < limit
        THEN emotion_based \o NewestFirst(suggestions_query(c), limit - Len(emotion_based))
        ELSE emotion_based

suggestions(c, limit) ==
    LET emotion_based == NewestFirst(suggestions_query(c)
                            \cap similar_emotion_users(recent_expression(c)), limit)
    IN  IF recent_expression(c) = None THEN NewestFirst(suggestions_query(c), limit)
        ELSE IF Len(emotion_based) < limit
        THEN emotion_based \o NewestFirst(suggestions_query(c) \ Ids(emotion_based),
                                          limit - Len(emotion_based))
        ELSE emotion_based

\* users.py get_user_suggestions: the ids of the suggested users, in order
get_user_suggestions(c, limit) ==
    IF get_current_user(c) # OK THEN Raise("get_user_suggestions", get_current_user(c))
    ELSE /\ RespondBody("get_user_suggestions",
                [suggestions |-> suggestions(c, limit),
                 total_count |-> Len(suggestions(c, limit)),
                 filtered_by_emotion |-> recent_expression(c)])
         /\ UNCHANGED <<db, pending>>

\* ------------------------------------------------------------------ api/facial_expressions.py
\* the labels the classifier may put on an image, and their scores
Labels == {"Happy", "happy", "sad"}
Scores == {1, 2}

\* str.lower()
Lower(label) == IF label = "Happy" THEN "happy" ELSE label

\* what one call of the classifier does: it is not loaded, it raises, or it
\* returns a list of results [label, score] (possibly empty)
Results ==
    UNION {[1..n -> [label : Labels, score : Scores]] : n \in 0..MaxResults}

ClassifierOutcomes ==
    {[kind |-> "uninitialised"], [kind |-> "raises"]}
        \cup {[kind |-> "returns", results |-> r] : r \in Results}

\* a dict as the sequence of its items <<key, value>>, in insertion order;
\* assigning to a key it holds replaces the value and keeps the position
SetItem(dict, key, value) ==
    IF \E i \in DOMAIN dict : dict[i][1] = key
    THEN [i \in DOMAIN dict |-> IF dict[i][1] = key THEN <<key, value>> ELSE dict[i]]
    ELSE Append(dict, <<key, value>>)

\* {result['label'].lower(): result['score'] for result in results}
RECURSIVE ToDict(_)
ToDict(results) ==
    IF results = <<>> THEN <<>>
    ELSE SetItem(ToDict(SubSeq(results, 1, Len(results) - 1)),
                 Lower(results[Len(results)].label), results[Len(results)].score)

\* facial_recognition_service.py analyze_facial_expression: the emotions, or the
\* exception it raises, and the number of calls of the classifier it made
analyze_facial_expression(outcome) ==
    IF outcome.kind = "uninitialised"
    THEN [raised |-> "Emotion classifier not initialized", calls |-> 0]
    ELSE IF outcome.kind = "raises"
    THEN [raised |-> "classifier error", calls |-> 1]
    ELSE [raised |-> None, emotions |-> ToDict(outcome.results), calls |-> 1]

get_dominant_emotion_last(emotions) ==
    emotions[Len(emotions)]

\* max(emotions.items(), key=lambda x: x[1]): the first item of the largest score
get_dominant_emotion(emotions) ==
    emotions[CHOOSE i \in DOMAIN emotions :
                /\ \A j \in DOMAIN emotions : emotions[j][2] <= emotions[i][2]
                /\ \A j \in DOMAIN emotions : j < i => emotions[j][2] < emotions[i][2]]

\* the response of analyze_emotion, with the calls of the classifier it took
RespondAnalysis(status, detail, calls, body) ==
    last' = [op |-> "analyze_emotion", status |-> status, detail |-> detail,
             classifier_calls |-> calls, body |-> body]

analyze_emotion_retry(u, outcome, save) ==
    LET r == analyze_facial_expression(outcome)
    IN  IF get_current_user(u) # OK THEN Raise("analyze_emotion", get_current_user(u))
        ELSE IF r.raised # None \/ r.emotions = <<>>
        THEN /\ RespondAnalysis(500, "Error analyzing facial expression", r.calls + 1, None)
             /\ UNCHANGED <<db, pending>>
        ELSE /\ Len(facial_expressions) < MaxExpressions
             /\ facial_expressions' = Append(facial_expressions,
                    FacialExpression(u, get_dominant_emotion(r.emotions)[1],
                                     get_dominant_emotion(r.emotions)[2], TRUE))
             /\ RespondAnalysis(200, "", r.calls,
                    [emotions |-> r.emotions,
                     dominant_emotion |-> get_dominant_emotion(r.emotions)[1],
                     confidence |-> get_dominant_emotion(r.emotions)[2],
                     saved |-> save])
             /\ UNCHANGED <<users, tweets, next_tweet_id, likes, retweets, bookmarks, follows,
                            replies, notifications, pending>>

\* facial_expressions.py analyze_emotion: any exception of the analysis, of
\* max() over no item, or of the commit ends the request with status 500
analyze_emotion(u, outcome, save) ==
    LET r == analyze_facial_expression(outcome)
    IN  IF get_current_user(u) # OK THEN Raise("analyze_emotion", get_current_user(u))
        ELSE IF r.raised # None \/ r.emotions = <<>>
        THEN /\ RespondAnalysis(500, "Error analyzing facial expression", r.calls, None)
             /\ UNCHANGED <<db, pending>>
        ELSE /\ save => Len(facial_expressions) < MaxExpressions
             /\ facial_expressions' =
                    IF save
                    THEN Append(facial_expressions,
                            FacialExpression(u, get_dominant_emotion(r.emotions)[1],
                                             get_dominant_emotion(r.emotions)[2], TRUE))
                    ELSE facial_expressions
             /\ RespondAnalysis(200, "", r.calls,
                    [emotions |-> r.emotions,
                     dominant_emotion |-> get_dominant_emotion(r.emotions)[1],
                     confidence |-> get_dominant_emotion(r.emotions)[2],
                     saved |-> save])
             /\ UNCHANGED <<users, tweets, next_tweet_id, likes, retweets, bookmarks, follows,
                            replies, notifications, pending>>
\* ------------------------------------------------------------------ interleaved requests
\* A request runs its queries, then its writes reach the database at db.commit().
\* Another request may run in between: `pending` holds the requests that have
\* passed their checks, each with the counter value its session loaded.
Request(op, u, t, seen) == [op |-> op, user |-> u, tweet |-> t, seen |-> seen]

Begin(r) ==
    /\ HasRoom
    /\ pending' = pending (+) SetToBag({r})
    /\ UNCHANGED <<db, last>>

\* the flush of a request whose target tweet was deleted meanwhile fails,
\* and the session rolls back
Rollback(r) ==
    /\ Respond(r.op, 500, "Internal Server Error")
    /\ UNCHANGED db

begin_like_tweet(u, t) ==
    IF like_tweet_check(u, t) # OK THEN Raise("like_tweet", like_tweet_check(u, t))
    ELSE Begin(Request("like_tweet", u, t, tweets[t].likes_count))

begin_retweet(u, t) ==
    IF retweet_check(u, t) # OK THEN Raise("retweet", retweet_check(u, t))
    ELSE Begin(Request("retweet", u, t, tweets[t].retweets_count))

commit(r) ==
    /\ pending' = pending (-) SetToBag({r})
    /\ IF r.tweet \notin DOMAIN tweets THEN Rollback(r)
       ELSE IF r.op = "like_tweet" THEN like_tweet_write(r.user, r.tweet, r.seen)
       ELSE retweet_write(r.user, r.tweet, r.seen)

\* ------------------------------------------------------------------ specifications
\* the tweet ids a request names: every id issued so far and one never issued
TargetIds == {t \in TweetIds : t <= next_tweet_id}

\* the registration of the next user, with a fresh email and username
Setup ==
    \/ \E e \in {Len(users) + 1} \cap Emails : register(e, e)
    \/ \E u \in UserIds : create_tweet(u)

NextLike ==
    \/ Setup
    \/ \E u \in UserIds, t \in TargetIds : like_tweet(u, t)
    \/ \E u \in UserIds, t \in TargetIds : unlike_tweet(u, t)
    \/ \E u \in UserIds, t \in TargetIds : delete_tweet(u, t)

SpecLike == Init /\ [][NextLike]_vars

NextRetweet ==
    \/ Setup
    \/ \E u \in UserIds, t \in TargetIds : retweet(u, t)
    \/ \E u \in UserIds, t \in TargetIds : delete_retweet(u, t)
    \/ \E u \in UserIds, t \in TargetIds : delete_tweet(u, t)

SpecRetweet == Init /\ [][NextRetweet]_vars

NextReply ==
    \/ Setup
    \/ \E u \in UserIds, p \in TargetIds : reply_to_tweet(u, p)
    \/ \E u \in UserIds, t \in TargetIds : delete_tweet(u, t)

SpecReply == Init /\ [][NextReply]_vars

NextFollow ==
    \/ Setup
    \/ \E u \in UserIds, v \in UserIds : follow_user(u, v)
    \/ \E u \in UserIds, v \in UserIds : unfollow_user(u, v)

SpecFollow == Init /\ [][NextFollow]_vars

\* like_tweet and retweet requests interleave; the other requests run between
\* the steps of those
NextRace ==
    \/ Setup
    \/ \E u \in UserIds, t \in TargetIds : begin_like_tweet(u, t)
    \/ \E u \in UserIds, t \in TargetIds : begin_retweet(u, t)
    \/ \E r \in BagToSet(pending) : commit(r)
    \/ \E u \in UserIds, t \in TargetIds : unlike_tweet(u, t)
    \/ \E u \in UserIds, t \in TargetIds : delete_retweet(u, t)
    \/ \E u \in UserIds, p \in TargetIds : reply_to_tweet(u, p)

SpecRace == Init /\ [][NextRace]_vars

\* like_tweet requests interleave
NextRaceLike ==
    \/ Setup
    \/ \E u \in UserIds, t \in TargetIds : begin_like_tweet(u, t)
    \/ \E r \in BagToSet(pending) : commit(r)
    \/ \E u \in UserIds, t \in TargetIds : unlike_tweet(u, t)

SpecRaceLike == Init /\ [][NextRaceLike]_vars

\* the four uniqueness-constrained edges, one request at a time
NextEdges ==
    \/ Setup
    \/ \E u \in UserIds, t \in TargetIds : like_tweet(u, t)
    \/ \E u \in UserIds, t \in TargetIds : unlike_tweet(u, t)
    \/ \E u \in UserIds, t \in TargetIds : retweet(u, t)
    \/ \E u \in UserIds, t \in TargetIds : delete_retweet(u, t)
    \/ \E u \in UserIds, t \in TargetIds : bookmark_tweet(u, t)
    \/ \E u \in UserIds, t \in TargetIds : delete_bookmark(u, t)
    \/ \E u \in UserIds, v \in UserIds : follow_user(u, v)
    \/ \E u \in UserIds, v \in UserIds : unfollow_user(u, v)

SpecEdges == Init /\ [][NextEdges]_vars

\* the four handlers that notify, one request at a time
NextNotify ==
    \/ Setup
    \/ \E u \in UserIds, t \in TargetIds : like_tweet(u, t)
    \/ \E u \in UserIds, t \in TargetIds : retweet(u, t)
    \/ \E u \in UserIds, p \in TargetIds : reply_to_tweet(u, p)
    \/ \E u \in UserIds, v \in UserIds : follow_user(u, v)

SpecNotify == Init /\ [][NextNotify]_vars

\* bookmarks next to likes, one request at a time
NextBookmark ==
    \/ Setup
    \/ \E u \in UserIds, t \in TargetIds : bookmark_tweet(u, t)
    \/ \E u \in UserIds, t \in TargetIds : delete_bookmark(u, t)
    \/ \E u \in UserIds, t \in TargetIds : like_tweet(u, t)

SpecBookmark == Init /\ [][NextBookmark]_vars

\* tweets are deleted while like_tweet requests are between their queries and
\* their commit, and between the other handlers that reference a tweet
NextIntegrity ==
    \/ Setup
    \/ \E u \in UserIds, t \in TargetIds : begin_like_tweet(u, t)
    \/ \E r \in BagToSet(pending) : commit(r)
    \/ \E u \in UserIds, t \in TargetIds : retweet(u, t)
    \/ \E u \in UserIds, t \in TargetIds : bookmark_tweet(u, t)
    \/ \E u \in UserIds, p \in TargetIds : reply_to_tweet(u, p)
    \/ \E u \in UserIds, t \in TargetIds : delete_tweet(u, t)

SpecIntegrity == Init /\ [][NextIntegrity]_vars

\* users are deactivated between requests on tweets, likes and follows
NextUsers ==
    \/ Setup
    \/ \E u \in UserIds : delete_user(u)
    \/ \E u \in UserIds, t \in TargetIds : like_tweet(u, t)
    \/ \E u \in UserIds, t \in TargetIds : unlike_tweet(u, t)
    \/ \E u \in UserIds, v \in UserIds : follow_user(u, v)
    \/ \E u \in UserIds, t \in TargetIds : delete_tweet(u, t)

SpecUsers == Init /\ [][NextUsers]_vars

\* the read paths between the handlers that create edges
NextRead ==
    \/ Setup
    \/ \E u \in UserIds, t \in TargetIds : like_tweet(u, t)
    \/ \E u \in UserIds, t \in TargetIds : retweet(u, t)
    \/ \E u \in UserIds, t \in TargetIds : bookmark_tweet(u, t)
    \/ \E u \in UserIds, p \in TargetIds : reply_to_tweet(u, p)
    \/ \E v \in Viewers : get_tweets(v)
    \/ \E v \in Viewers, u \in UserIds : get_user_tweets(v, u)
    \/ \E v \in Viewers, t \in TargetIds : tweets_get_tweet_replies(v, t)
    \/ \E v \in Viewers, t \in TargetIds : get_tweet_replies(v, t)
    \/ \E v \in Viewers : get_bookmarks(v)

SpecRead == Init /\ [][NextRead]_vars


\* suggestions: the handler applied to a database of MaxSuggestUsers registered
\* users, some of them deactivated, with follow rows and facial expressions, the
\* oldest of which may be older than 24 hours
SuggestUserIds == 1..MaxSuggestUsers
Limits == 1..MaxLimit

ExpressionTables ==
    UNION {[1..n -> {FacialExpression(u, e, 1, r) : u \in SuggestUserIds, e \in Emotions,
                                                    r \in BOOLEAN}]
           : n \in 0..MaxExpressions}

InitSuggest ==
    /\ users \in {[u \in SuggestUserIds |-> [User(u, u) EXCEPT !.is_active = active[u]]]
                  : active \in [SuggestUserIds -> BOOLEAN]}
    /\ tweets = << >>
    /\ next_tweet_id = 1
    /\ likes = EmptyBag
    /\ retweets = EmptyBag
    /\ bookmarks = EmptyBag
    /\ follows \in {SetToBag(S) : S \in {F \in SUBSET {k \in SuggestUserIds \X SuggestUserIds
                                                        : k[1] # k[2]}
                                         : Cardinality(F) <= MaxFollows}}
    /\ replies = {}
    /\ notifications = EmptyBag
    /\ facial_expressions \in {x \in ExpressionTables :
                                 \A i, j \in DOMAIN x : (i < j /\ x[i].recent) => x[j].recent}
    /\ pending = EmptyBag
    /\ last = [op |-> "none", status |-> 0, detail |-> ""]

NextSuggest ==
    \E c \in SuggestUserIds, limit \in Limits : get_user_suggestions(c, limit)

SpecSuggest == InitSuggest /\ [][NextSuggest]_vars

\* emotion analysis by the registered users, whatever the classifier does
NextEmotion ==
    \/ \E e \in {Len(users) + 1} \cap Emails : register(e, e)
    \/ \E u \in UserIds, outcome \in ClassifierOutcomes, save \in BOOLEAN :
            analyze_emotion(u, outcome, save)

SpecEmotion == Init /\ [][NextEmotion]_vars

\* the five create handlers, with tweets deleted in between
NextCreate ==
    \/ Setup
    \/ \E u \in UserIds, t \in TweetIds : like_tweet(u, t)
    \/ \E u \in UserIds, t \in TweetIds : retweet(u, t)
    \/ \E u \in UserIds, t \in TweetIds : bookmark_tweet(u, t)
    \/ \E u \in UserIds, p \in TweetIds : reply_to_tweet(u, p)
    \/ \E u \in UserIds, v \in UserIds : follow_user(u, v)
    \/ \E u \in UserIds, t \in TargetIds : delete_tweet(u, t)

SpecCreate == Init /\ [][NextCreate]_vars

\* registrations with any email and username, between tweets and deactivations
NextRegister ==
    \/ \E e \in Emails, n \in Usernames : register(e, n)
    \/ \E u \in UserIds : create_tweet(u)
    \/ \E u \in UserIds : delete_user(u)

SpecRegister == Init /\ [][NextRegister]_vars

\* deactivation between logins, profile updates and the requests of both users
NextDeactivate ==
    \/ Setup
    \/ \E u \in UserIds : delete_user(u)
    \/ \E e \in Emails, password_ok \in BOOLEAN : login(e, password_ok)
    \/ \E u \in UserIds, user_data \in UpdateData : update_profile(u, user_data)
    \/ \E u \in UserIds, t \in TargetIds : like_tweet(u, t)
    \/ \E u \in UserIds, t \in TargetIds : unlike_tweet(u, t)
    \/ \E u \in UserIds, v \in UserIds : follow_user(u, v)
    \/ \E u \in UserIds, t \in TargetIds : delete_tweet(u, t)

SpecDeactivate == Init /\ [][NextDeactivate]_vars
\* every handler, one request at a time
Next ==
    \/ Setup
    \/ \E u \in UserIds, t \in TargetIds : like_tweet(u, t)
    \/ \E u \in UserIds, t \in TargetIds : unlike_tweet(u, t)
    \/ \E u \in UserIds, t \in TargetIds : retweet(u, t)
    \/ \E u \in UserIds, t \in TargetIds : delete_retweet(u, t)
    \/ \E u \in UserIds, p \in TargetIds : reply_to_tweet(u, p)
    \/ \E u \in UserIds, t \in TargetIds : bookmark_tweet(u, t)
    \/ \E u \in UserIds, t \in TargetIds : delete_bookmark(u, t)
    \/ \E u \in UserIds, v \in UserIds : follow_user(u, v)
    \/ \E u \in UserIds, v \in UserIds : unfollow_user(u, v)
    \/ \E u \in UserIds, t \in TargetIds : delete_tweet(u, t)

Spec == Init /\ [][Next]_vars
\* ------------------------------------------------------------------ properties
Keys == UserIds \X TweetIds

\* C1: after any sequence of like_tweet and unlike_tweet requests that do not race,
\* the likes_count of every tweet equals the number of Like rows on that tweet.
LikesCountMatchesRows ==
    \A t \in DOMAIN tweets : tweets[t].likes_count = RowsOn(likes, t)

\* two users liked a tweet and one of them took the like back
LikesCountWitness ==
    /\ last.op = "unlike_tweet" /\ last.status = 200
    /\ \E t \in DOMAIN tweets : tweets[t].likes_count = 1 /\ RowsOn(likes, t) = 1

\* C2: after any sequence of create_tweet, reply_to_tweet and delete_tweet requests,
\* the replies_count of every existing tweet equals the number of Reply rows whose
\* parent it is, also after one of its replies was deleted.
RepliesCountMatchesRows ==
    \A t \in DOMAIN tweets :
        tweets[t].replies_count = Cardinality({r \in replies : r.parent_tweet_id = t})

\* C3: after any sequence of retweet and delete_retweet requests that do not race,
\* the retweets_count of every tweet equals the number of Retweet rows on it, and a
\* successful delete_retweet removes exactly one row, the caller's, and lowers a
\* positive retweets_count by exactly one.
DeleteRetweetStep ==
    (last'.op = "delete_retweet" /\ last'.status = 200) =>
        \A u \in UserIds, t \in TweetIds :
            delete_retweet(u, t) =>
                /\ Rows(retweets', <<u, t>>) = Rows(retweets, <<u, t>>) - 1
                /\ \A k \in Keys \ {<<u, t>>} : Rows(retweets', k) = Rows(retweets, k)
                /\ (t \in DOMAIN tweets /\ tweets[t].retweets_count > 0) =>
                       tweets'[t].retweets_count = tweets[t].retweets_count - 1

RetweetsCountMatchesRows ==
    /\ [](\A t \in DOMAIN tweets : tweets[t].retweets_count = RowsOn(retweets, t))
    /\ [][DeleteRetweetStep]_vars

\* two users retweeted a tweet and one of them removed the retweet
RetweetsCountWitness ==
    /\ last.op = "delete_retweet" /\ last.status = 200
    /\ \E t \in DOMAIN tweets : tweets[t].retweets_count = 1 /\ RowsOn(retweets, t) = 1

\* C4: after any sequence of requests that run one at a time there is at most one
\* Like row per (user, tweet), one Retweet row per (user, tweet), one Bookmark row
\* per (user, tweet) and one Follow row per (follower, following).
EdgesUnique ==
    /\ \A k \in Keys : Rows(likes, k) <= 1 /\ Rows(retweets, k) <= 1 /\ Rows(bookmarks, k) <= 1
    /\ \A f \in UserIds \X UserIds : Rows(follows, f) <= 1

\* a second follow of the same user was refused while the tables hold rows of two kinds
EdgesUniqueWitness ==
    /\ last.detail = "Already following this user"
    /\ RowCount(follows) = 1
    /\ RowCount(likes) + RowCount(retweets) + RowCount(bookmarks) = 1

\* C5: when two like_tweet requests of one user for one tweet both pass the
\* "already liked" check before either commits, the store rejects the second
\* insert: once both have finished there is one Like row for the pair.
StoreRejectsDuplicateLike ==
    pending = EmptyBag => \A k \in Keys : Rows(likes, k) <= 1

\* C6: a like_tweet request of user u for tweet t while a Like row (u, t) exists
\* is answered 400 "Already liked" and leaves the Like rows, the tweet counters and
\* the Notification rows as they were, every time it is made.
DuplicateLikeStep ==
    last'.op = "like_tweet" =>
        \A u \in UserIds, t \in TweetIds :
            (Rows(likes, <<u, t>>) > 0 /\ like_tweet(u, t)) =>
                /\ last'.status = 400 /\ last'.detail = "Already liked"
                /\ UNCHANGED <<likes, tweets, notifications>>

DuplicateLikeRejected == [][DuplicateLikeStep]_vars

\* a like of an already liked tweet has been answered
DuplicateLikeWitness ==
    /\ last.op = "like_tweet" /\ last.status = 400 /\ last.detail = "Already liked"
    /\ RowCount(likes) > 0

\* C7: an unlike_tweet request of user u for tweet t while no Like row (u, t)
\* exists is answered 404 and changes nothing; no unlike_tweet request removes a
\* Like row of another key, nor lowers a counter when the caller has no row.
UnlikeMissingStep ==
    last'.op = "unlike_tweet" =>
        \* a caller without a row is answered 404 and nothing changes
        /\ \/ last'.status = 404 /\ UNCHANGED db
           \/ \A u \in UserIds, t \in TweetIds :
                  (get_current_user(u) = OK /\ Rows(likes, <<u, t>>) = 0) =>
                      ~unlike_tweet(u, t)
        \* a step that changes a row or a counter is the step of a caller who has
        \* a row, and only rows of the caller's own key change
        /\ (likes' # likes \/ tweets' # tweets) =>
               \A u \in UserIds, t \in TweetIds :
                   unlike_tweet(u, t) =>
                       /\ Rows(likes, <<u, t>>) > 0
                       /\ \A k \in Keys \ {<<u, t>>} : Rows(likes', k) = Rows(likes, k)

UnlikeMissingNotFound == [][UnlikeMissingStep]_vars

\* an unlike without a like was answered 404 while another like exists
UnlikeMissingWitness ==
    /\ last.op = "unlike_tweet" /\ last.status = 404 /\ last.detail = "Like not found"
    /\ RowCount(likes) > 0

\* C8: the three counters of every tweet are never negative; an unlike_tweet of
\* user u on tweet t while a Like row (u, t) exists and likes_count is already 0
\* is answered 200, deletes one row of (u, t) and leaves likes_count at 0, and
\* delete_retweet does the same with retweets_count.
CountersNonNegative ==
    \A t \in DOMAIN tweets :
        /\ tweets[t].likes_count >= 0
        /\ tweets[t].retweets_count >= 0
        /\ tweets[t].replies_count >= 0

ClampStep ==
    /\ last'.op = "unlike_tweet" =>
        \A u \in UserIds, t \in DOMAIN tweets :
            (Rows(likes, <<u, t>>) > 0 /\ tweets[t].likes_count = 0 /\ unlike_tweet(u, t)) =>
                /\ last'.status = 200
                /\ Rows(likes', <<u, t>>) = Rows(likes, <<u, t>>) - 1
                /\ tweets'[t].likes_count = 0
    /\ last'.op = "delete_retweet" =>
        \A u \in UserIds, t \in DOMAIN tweets :
            (Rows(retweets, <<u, t>>) > 0 /\ tweets[t].retweets_count = 0
                /\ delete_retweet(u, t)) =>
                /\ last'.status = 200
                /\ Rows(retweets', <<u, t>>) = Rows(retweets, <<u, t>>) - 1
                /\ tweets'[t].retweets_count = 0

CountersNeverNegative ==
    [][CountersNonNegative /\ CountersNonNegative' /\ ClampStep]_vars

\* two interleaved likes left likes_count one short of the rows; after one unlike a
\* Like row still exists on a tweet whose likes_count is 0
ClampWitness ==
    /\ last.op = "unlike_tweet" /\ last.status = 200
    /\ \E t \in DOMAIN tweets : tweets[t].likes_count = 0 /\ RowsOn(likes, t) > 0

\* C9: a successful reply_to_tweet of user u on parent p adds one Tweet row owned
\* by u, one Reply row linking it to p, one to p.replies_count, and one Notification
\* (to p's owner, from u, type "reply", tweet p) when u is not p's owner and none
\* when u is; no other counter of any tweet changes.
ReplyStep ==
    (last'.op = "reply_to_tweet" /\ last'.status = 201) =>
        \A u \in UserIds, p \in DOMAIN tweets :
            reply_to_tweet(u, p) =>
                \E new \in TweetIds \ DOMAIN tweets :
                    /\ DOMAIN tweets' = DOMAIN tweets \cup {new}
                    /\ tweets'[new].user_id = u
                    /\ Reply(new, p) \notin replies
                    /\ replies' = replies \cup {Reply(new, p)}
                    /\ tweets'[p] = [tweets[p] EXCEPT !.replies_count = @ + 1]
                    /\ \A t \in DOMAIN tweets \ {p} : tweets'[t] = tweets[t]
                    /\ notifications' =
                           IF tweets[p].user_id # u
                           THEN notifications (+)
                                SetToBag({Notification(tweets[p].user_id, "reply", u, p)})
                           ELSE notifications

ReplyAddsOneOfEach == [][ReplyStep]_vars

\* a user replied to another user's tweet while a third tweet exists
ReplyWitness ==
    /\ last.op = "reply_to_tweet" /\ last.status = 201
    /\ Cardinality(DOMAIN tweets) = 3
    /\ \E n \in BagToSet(notifications) : n.type = "reply" /\ n.user_id # n.sender_id

\* C10: a follow_user request whose following_id is the caller's own id is
\* answered 400, with or without Follow rows in the table, and adds no Follow row
\* and no Notification; no Follow row ever has follower_id = following_id.
SelfFollowStep ==
    last'.op = "follow_user" =>
        \A u \in UserIds :
            (get_current_user(u) = OK /\ follow_user(u, u)) =>
                /\ last'.status = 400
                /\ UNCHANGED <<follows, notifications>>

NoSelfFollow ==
    /\ [](\A u \in UserIds : Rows(follows, <<u, u>>) = 0)
    /\ [][SelfFollowStep]_vars

\* a user who follows someone asked to follow themselves and was refused
SelfFollowWitness ==
    /\ last.op = "follow_user" /\ last.detail = "Cannot follow yourself"
    /\ RowCount(follows) > 0

\* C11: a successful like_tweet, retweet or reply_to_tweet of user u on a tweet
\* owned by another user, and a successful follow_user, adds exactly one
\* Notification to the owner (the followed user) from u with the type of the
\* handler; when u owns the tweet none is added; no Notification ever has
\* user_id = sender_id.
NotifiedBy(type, u, t) ==
    IF tweets[t].user_id # u
    THEN notifications (+) SetToBag({Notification(tweets[t].user_id, type, u, t)})
    ELSE notifications

NotifyStep ==
    last'.status = 201 =>
        /\ last'.op = "like_tweet" =>
               \A u \in UserIds, t \in DOMAIN tweets :
                   like_tweet(u, t) => notifications' = NotifiedBy("like", u, t)
        /\ last'.op = "retweet" =>
               \A u \in UserIds, t \in DOMAIN tweets :
                   retweet(u, t) => notifications' = NotifiedBy("retweet", u, t)
        /\ last'.op = "reply_to_tweet" =>
               \A u \in UserIds, t \in DOMAIN tweets :
                   reply_to_tweet(u, t) => notifications' = NotifiedBy("reply", u, t)
        /\ last'.op = "follow_user" =>
               \A u \in UserIds, v \in UserIds :
                   follow_user(u, v) =>
                       notifications' = notifications (+)
                           SetToBag({Notification(v, "follow", u, NoTweet)})

NotificationsToOwner ==
    /\ [](\A n \in BagToSet(notifications) : n.user_id # n.sender_id)
    /\ [][NotifyStep]_vars

\* a user liked their own tweet, which added nothing to the one notification
\* another user's retweet had produced
NotifyWitness ==
    /\ last.op = "like_tweet" /\ last.status = 201
    /\ \E t \in DOMAIN tweets :
           /\ Rows(likes, <<tweets[t].user_id, t>>) = 1
           /\ RowsOn(likes, t) = 1
    /\ \E n \in BagToSet(notifications) : n.type = "retweet"
    /\ BagCardinality(notifications) = 1

\* C12: a successful bookmark_tweet of tweet t by a user other than t's owner
\* adds one Notification for t's owner with the actor as sender, as the other
\* create-edge handlers do.
BookmarkNotifyStep ==
    (last'.op = "bookmark_tweet" /\ last'.status = 201) =>
        \A u \in UserIds, t \in DOMAIN tweets :
            (tweets[t].user_id # u /\ bookmark_tweet(u, t)) =>
                /\ BagCardinality(notifications') = BagCardinality(notifications) + 1
                /\ \E n \in BagToSet(notifications') :
                       /\ n.user_id = tweets[t].user_id /\ n.sender_id = u /\ n.tweet_id = t
                       /\ CopiesIn(n, notifications') = CopiesIn(n, notifications) + 1

BookmarkNotifies == [][BookmarkNotifyStep]_vars

\* C12 as amended: a successful bookmark_tweet of tweet t by user u, owner or not,
\* adds one Bookmark row (u, t) and nothing else: no Notification is added and no
\* counter of any tweet changes.
BookmarkRowOnlyStep ==
    (last'.op = "bookmark_tweet" /\ last'.status = 201) =>
        \A u \in UserIds, t \in DOMAIN tweets :
            bookmark_tweet(u, t) =>
                /\ bookmarks' = bookmarks (+) SetToBag({<<u, t>>})
                /\ notifications' = notifications
                /\ tweets' = tweets

BookmarkAddsRowOnly == [][BookmarkRowOnlyStep]_vars

\* a user bookmarked another user's tweet and no notification exists
BookmarkWitness ==
    /\ last.op = "bookmark_tweet" /\ last.status = 201
    /\ \E u \in UserIds, t \in DOMAIN tweets :
           tweets[t].user_id # u /\ Rows(bookmarks, <<u, t>>) = 1
    /\ notifications = EmptyBag

\* C13: the row, the counter write and the notification of one like_tweet, retweet
\* or reply_to_tweet request reach the database in one step: no step adds a Like,
\* Retweet or Reply row without the request's counter increment, none raises a
\* counter without adding the row, and none adds a notification without a row.
RepliesOn(rs, t) == Cardinality({r \in rs : r.parent_tweet_id = t})

AtomicStep ==
    /\ likes' # likes =>
           \A t \in DOMAIN tweets :
               RowsOn(likes', t) > RowsOn(likes, t) =>
                   /\ RowsOn(likes', t) = RowsOn(likes, t) + 1
                   /\ \E r \in BagToSet(pending) :
                          /\ r.op = "like_tweet" /\ r.tweet = t
                          /\ pending' = pending (-) SetToBag({r})
                          /\ tweets'[t].likes_count = r.seen + 1
                          /\ tweets[t].user_id # r.user =>
                                 BagCardinality(notifications') =
                                     BagCardinality(notifications) + 1
    /\ retweets' # retweets =>
           \A t \in DOMAIN tweets :
               RowsOn(retweets', t) > RowsOn(retweets, t) =>
                   /\ RowsOn(retweets', t) = RowsOn(retweets, t) + 1
                   /\ \E r \in BagToSet(pending) :
                          /\ r.op = "retweet" /\ r.tweet = t
                          /\ pending' = pending (-) SetToBag({r})
                          /\ tweets'[t].retweets_count = r.seen + 1
                          /\ tweets[t].user_id # r.user =>
                                 BagCardinality(notifications') =
                                     BagCardinality(notifications) + 1
    /\ tweets' # tweets =>
           \A t \in DOMAIN tweets :
               /\ tweets'[t].likes_count > tweets[t].likes_count =>
                      RowsOn(likes', t) = RowsOn(likes, t) + 1
               /\ tweets'[t].retweets_count > tweets[t].retweets_count =>
                      RowsOn(retweets', t) = RowsOn(retweets, t) + 1
               /\ tweets'[t].replies_count # tweets[t].replies_count =>
                      /\ tweets'[t].replies_count = tweets[t].replies_count + 1
                      /\ RepliesOn(replies', t) = RepliesOn(replies, t) + 1
    /\ replies' # replies =>
           \A t \in DOMAIN tweets :
               RepliesOn(replies', t) > RepliesOn(replies, t) =>
                   tweets'[t].replies_count = tweets[t].replies_count + 1
    /\ notifications' # notifications =>
           (likes' # likes \/ retweets' # retweets \/ replies' # replies)

WritesAreAtomic == [][AtomicStep]_vars

\* the like of one request is committed, row and counter, while another request
\* that ran its queries before is still waiting to commit
AtomicWitness ==
    /\ last.op = "like_tweet" /\ last.status = 201
    /\ pending # EmptyBag
    /\ \E t \in DOMAIN tweets : RowsOn(likes, t) = 1 /\ tweets[t].likes_count = 1

\* C14: unlike_tweet, delete_retweet, delete_bookmark and unfollow_user leave the
\* Notification rows as they were: the notification of the earlier like, retweet
\* or follow is still there after the edge is removed.
RemoveOps == {"unlike_tweet", "delete_retweet", "delete_bookmark", "unfollow_user"}

RemoveEdgeStep ==
    /\ last'.op \in RemoveOps => notifications' = notifications
    /\ (\/ RowCount(likes') < RowCount(likes)
        \/ RowCount(retweets') < RowCount(retweets)
        \/ RowCount(bookmarks') < RowCount(bookmarks)
        \/ RowCount(follows') < RowCount(follows)) => notifications' = notifications

RemoveKeepsNotifications == [][RemoveEdgeStep]_vars

\* a user unfollowed another and the notification of the follow is still there
RemoveKeepsWitness ==
    /\ last.op = "unfollow_user" /\ last.status = 200
    /\ follows = EmptyBag
    /\ \E n \in BagToSet(notifications) : n.type = "follow"

\* C15: notifications are append-only: a Notification row that exists is still
\* there, with the same recipient, sender, type and tweet reference, after every
\* later request, delete_tweet of the tweet it references included.
AppendOnlyStep ==
    \A n \in BagToSet(notifications) :
        CopiesIn(n, notifications') >= CopiesIn(n, notifications)

NotificationsAppendOnly == [][AppendOnlyStep]_vars

\* C15 as amended: a Notification row is never changed, and it is removed only by
\* a successful delete_tweet of the tweet it references, which removes every
\* notification of that tweet; every other request keeps every existing row.
AppendOrCascadeStep ==
    notifications' # notifications =>
        \A n \in BagToSet(notifications) :
            \/ CopiesIn(n, notifications') >= CopiesIn(n, notifications)
            \/ /\ last'.op = "delete_tweet" /\ last'.status = 200
               /\ n.tweet_id \in DOMAIN tweets \ DOMAIN tweets'
               /\ CopiesIn(n, notifications') = 0

NotificationsKeptUnlessTweetDeleted == [][AppendOrCascadeStep]_vars

\* a tweet was deleted and the notification of a follow, or of another tweet, is
\* still there
AppendOnlyWitness ==
    /\ last.op = "delete_tweet" /\ last.status = 200
    /\ notifications # EmptyBag

\* C16: every Like, Retweet, Bookmark and Reply row references existing tweets
\* only; after a successful delete_tweet(t) no Like, Retweet or Bookmark row has
\* tweet id t and no Reply row has t as tweet_id or as parent_tweet_id.
ReferencesExist ==
    /\ \A k \in BagToSet(likes) \cup BagToSet(retweets) \cup BagToSet(bookmarks) :
           k[2] \in DOMAIN tweets
    /\ \A r \in replies : r.tweet_id \in DOMAIN tweets /\ r.parent_tweet_id \in DOMAIN tweets

DeleteTweetStep ==
    (last'.op = "delete_tweet" /\ last'.status = 200) =>
        \A t \in DOMAIN tweets \ DOMAIN tweets' :
            /\ RowsOn(likes', t) = 0 /\ RowsOn(retweets', t) = 0 /\ RowsOn(bookmarks', t) = 0
            /\ \A r \in replies' : r.tweet_id # t /\ r.parent_tweet_id # t

ReferentialIntegrity == [][ReferencesExist /\ ReferencesExist' /\ DeleteTweetStep]_vars

\* a reply was deleted and its Reply row went with it: the parent still counts a
\* reply and has no Reply row
ReferentialWitness ==
    /\ last.op = "delete_tweet" /\ last.status = 200
    /\ \E p \in DOMAIN tweets : tweets[p].replies_count = 1 /\ RepliesOn(replies, p) = 0

\* C17: delete_user only sets is_active to false: the User row stays, and the
\* tweets, edges and notifications are unchanged; no request ever removes a User
\* row, so the set of user ids only grows.
DeleteUserStep ==
    last'.op = "delete_user" =>
        \A u \in UserIds :
            delete_user(u) =>
                /\ UNCHANGED <<facial_expressions, tweets, next_tweet_id, likes, retweets, bookmarks, follows,
                               replies, notifications>>
                /\ DOMAIN users' = DOMAIN users
                /\ \A v \in DOMAIN users :
                       IF v = u
                       THEN users'[v] = [users[v] EXCEPT !.is_active = FALSE]
                       ELSE users'[v] = users[v]

UsersSoftDeleted == [][DeleteUserStep /\ DOMAIN users \subseteq DOMAIN users']_vars

\* the owner of a liked tweet was deactivated: the tweet, the like and its
\* notification are still there
SoftDeleteWitness ==
    /\ last.op = "delete_user" /\ last.detail = "True"
    /\ \E u \in DOMAIN users, t \in DOMAIN tweets :
           /\ ~users[u].is_active
           /\ tweets[t].user_id = u
           /\ RowsOn(likes, t) = 1
    /\ notifications # EmptyBag

\* C18: a delete_tweet request of a user who does not own the tweet is answered
\* 403 and leaves the tweet, its counters and its edges as they were; a tweet
\* disappears only in a successful delete_tweet step of its owner.
ForbiddenStep ==
    last'.op = "delete_tweet" =>
        \A u \in UserIds, t \in DOMAIN tweets :
            (get_current_user(u) = OK /\ tweets[t].user_id # u /\ delete_tweet(u, t)) =>
                /\ last'.status = 403
                /\ UNCHANGED db

OwnerOnlyStep ==
    DOMAIN tweets' # DOMAIN tweets =>
        \A t \in DOMAIN tweets \ DOMAIN tweets' :
            /\ last'.op = "delete_tweet" /\ last'.status = 200
            /\ get_current_user(tweets[t].user_id) = OK
            /\ delete_tweet(tweets[t].user_id, t)

DeleteTweetOwnerOnly == [][ForbiddenStep /\ OwnerOnlyStep]_vars

\* a user asked to delete another user's liked tweet and was refused
ForbiddenWitness ==
    /\ last.op = "delete_tweet" /\ last.status = 403
    /\ \E t \in DOMAIN tweets : tweets[t].likes_count = 1 /\ RowsOn(likes, t) = 1

\* C19: a tweet-list read (get_tweets, get_user_tweets, get_tweet_replies) made
\* without a bearer token, or with an invalid one, is answered 200 and every flag
\* of every returned tweet is false.
AnonymousRead ==
    \/ get_tweets(Anonymous)
    \/ \E u \in UserIds : get_user_tweets(Anonymous, u)
    \/ \E t \in TweetIds : tweets_get_tweet_replies(Anonymous, t)
    \/ \E t \in TweetIds : get_tweet_replies(Anonymous, t)

AnonymousReadStep ==
    (last'.op \in {"get_tweets", "get_user_tweets", "get_tweet_replies"} /\ AnonymousRead) =>
        /\ last'.status = 200
        /\ \A t \in DOMAIN last'.body :
               \A flag \in DOMAIN last'.body[t] : last'.body[t][flag] = FALSE

AnonymousReadSucceeds == [][AnonymousReadStep]_vars

\* C20: every read path that returns tweets to an authenticated viewer v
\* (get_tweets, get_user_tweets, both get_tweet_replies, get_bookmarks) gives each
\* returned tweet t the three flags is_liked, is_retweeted and is_bookmarked, equal
\* to the existence of the Like, Retweet and Bookmark row (v, t).
ReadBy(v) ==
    \/ get_tweets(v)
    \/ \E u \in UserIds : get_user_tweets(v, u)
    \/ \E t \in TweetIds : tweets_get_tweet_replies(v, t)
    \/ \E t \in TweetIds : get_tweet_replies(v, t)
    \/ get_bookmarks(v)

ViewerFlagsStep ==
    (last'.status = 200 /\ "body" \in DOMAIN last') =>
        \A v \in UserIds :
            ReadBy(v) =>
                \A t \in DOMAIN last'.body :
                    /\ DOMAIN last'.body[t] = {"is_liked", "is_retweeted", "is_bookmarked"}
                    /\ last'.body[t].is_liked = (Rows(likes, <<v, t>>) > 0)
                    /\ last'.body[t].is_retweeted = (Rows(retweets, <<v, t>>) > 0)
                    /\ last'.body[t].is_bookmarked = (Rows(bookmarks, <<v, t>>) > 0)

ViewerFlagsMatchEdges == [][ViewerFlagsStep]_vars

\* users that may be suggested to c: active, not c, not followed by c
Eligible(c) ==
    {u \in DOMAIN users : u # c /\ users[u].is_active /\ Rows(follows, <<c, u>>) = 0}

Min(a, b) == IF a <= b THEN a ELSE b

SuggestionsStep ==
    (last'.op = "get_user_suggestions" /\ last'.status = 200) =>
        \A c \in SuggestUserIds, limit \in Limits :
            get_user_suggestions(c, limit) =>
                LET s == last'.body.suggestions
                IN  /\ \A i, j \in DOMAIN s : i # j => s[i] # s[j]
                    /\ \A i \in DOMAIN s : /\ s[i] # c
                                           /\ Rows(follows, <<c, s[i]>>) = 0
                                           /\ users[s[i]].is_active
                    /\ Len(s) = Min(limit, Cardinality(Eligible(c)))

\* C21: for every state and every limit, the list get_user_suggestions returns to
\* caller C holds no user id twice, not C, no user C follows and no inactive user,
\* and its length is min(limit, number of active users other than C that C does
\* not follow).
SuggestionsWellFormed == [][SuggestionsStep]_vars

\* a list padded after an emotion match: a matching user, then a non-matching one
SuggestionsWitness ==
    /\ last.op = "get_user_suggestions"
    /\ last.status = 200
    /\ last.body.filtered_by_emotion # None
    /\ Len(last.body.suggestions) = 2
    /\ \E i \in DOMAIN facial_expressions :
            /\ facial_expressions[i].recent
            /\ facial_expressions[i].emotion = last.body.filtered_by_emotion
            /\ facial_expressions[i].user_id = last.body.suggestions[1]
    /\ \A i \in DOMAIN facial_expressions :
            facial_expressions[i].user_id # last.body.suggestions[2]

\* the emotion of the latest expression of c within 24 hours is e
LatestEmotion(c, e) ==
    \E i \in DOMAIN facial_expressions :
        /\ facial_expressions[i] = FacialExpression(c, e, facial_expressions[i].confidence, TRUE)
        /\ \A j \in DOMAIN facial_expressions :
                (j > i /\ facial_expressions[j].recent) => facial_expressions[j].user_id # c

\* u has an expression of emotion e within 24 hours
Matching(u, e) ==
    \E i \in DOMAIN facial_expressions :
        /\ facial_expressions[i].user_id = u
        /\ facial_expressions[i].emotion = e
        /\ facial_expressions[i].recent

RankingStep ==
    (last'.op = "get_user_suggestions" /\ last'.status = 200) =>
        \A c \in SuggestUserIds, limit \in Limits, e \in Emotions :
            (LatestEmotion(c, e) /\ get_user_suggestions(c, limit)) =>
                LET s == last'.body.suggestions
                IN  /\ \A i, j \in DOMAIN s :
                            (Matching(s[i], e) /\ ~Matching(s[j], e)) => i < j
                    /\ (\E i \in DOMAIN s : ~Matching(s[i], e)) =>
                            Cardinality({u \in Eligible(c) : Matching(u, e)}) < limit
                    /\ \A i, j \in DOMAIN s :
                            (i < j /\ Matching(s[i], e) = Matching(s[j], e)) => s[i] > s[j]

\* C22: when caller C has a recent FacialExpression, every returned user with a
\* recent expression of the emotion of C's latest one comes before every returned
\* user without one, a non-matching user is returned only when fewer than limit
\* matching candidates exist, and within each group the newest user comes first.
SuggestionsRanked == [][RankingStep]_vars

\* an older matching user is listed before a newer user who does not match
RankingWitness ==
    /\ last.op = "get_user_suggestions"
    /\ last.status = 200
    /\ last.body.filtered_by_emotion # None
    /\ Len(last.body.suggestions) = 2
    /\ last.body.suggestions[1] < last.body.suggestions[2]

DominantStep ==
    (last'.op = "analyze_emotion" /\ last'.status = 200) =>
        LET emotions == last'.body.emotions
        IN  /\ emotions # <<>>
            /\ \E i \in DOMAIN emotions :
                    /\ emotions[i] = <<last'.body.dominant_emotion, last'.body.confidence>>
                    /\ \A j \in DOMAIN emotions : emotions[j][2] <= emotions[i][2]
            /\ last'.body.saved =>
                    facial_expressions' = Append(facial_expressions,
                        FacialExpression(facial_expressions'[Len(facial_expressions')].user_id,
                                         last'.body.dominant_emotion, last'.body.confidence, TRUE))

\* C23: for every non-empty mapping the classifier returns, analyze_emotion reports
\* as dominant_emotion a key of the returned emotions whose score is at least every
\* other score, the reported confidence is the score of that key, and a saved row
\* carries that emotion and that confidence.
DominantIsArgmax == [][DominantStep]_vars

\* the dominant emotion is not the first label of the mapping, and it was saved
DominantWitness ==
    /\ last.op = "analyze_emotion"
    /\ last.status = 200
    /\ Len(last.body.emotions) = 2
    /\ last.body.emotions[2] = <<last.body.dominant_emotion, last.body.confidence>>
    /\ last.body.saved
    /\ facial_expressions # <<>>
    /\ facial_expressions[Len(facial_expressions)].emotion = last.body.dominant_emotion

\* the classifier is not loaded, raises, or returns no result
Failures ==
    {[kind |-> "uninitialised"], [kind |-> "raises"], [kind |-> "returns", results |-> <<>>]}

ClassifierFailureStep ==
    last'.op = "analyze_emotion" =>
        /\ \A u \in DOMAIN users, outcome \in Failures, save \in BOOLEAN :
                (users[u].is_active /\ analyze_emotion(u, outcome, save)) =>
                    /\ last'.status = 500
                    /\ UNCHANGED facial_expressions
        /\ last'.status = 500 => UNCHANGED db
        /\ "classifier_calls" \in DOMAIN last' => last'.classifier_calls <= 1
        /\ (last'.status = 200 /\ ~last'.body.saved) => UNCHANGED facial_expressions

\* C24: when the classifier is not loaded, raises or returns nothing, analyze_emotion
\* answers 500, has called the classifier at most once and persists no
\* FacialExpression row; with save = false a successful analysis persists none either.
ClassifierFailureIsFatal == [][ClassifierFailureStep]_vars

\* the classifier was called once and raised, with rows saved by earlier requests
ClassifierFailureWitness ==
    /\ last.op = "analyze_emotion"
    /\ last.status = 500
    /\ last.classifier_calls = 1
    /\ facial_expressions # <<>>

MissingTargetStep ==
    last'.op \in {"like_tweet", "retweet", "bookmark_tweet", "reply_to_tweet", "follow_user"} =>
        \A u \in DOMAIN users :
            users[u].is_active =>
                /\ \A t \in TweetIds \ DOMAIN tweets :
                        (\/ like_tweet(u, t)
                         \/ retweet(u, t)
                         \/ bookmark_tweet(u, t)
                         \/ reply_to_tweet(u, t)) =>
                            /\ last'.status = 404
                            /\ UNCHANGED db
                /\ \A v \in UserIds \ DOMAIN users :
                        follow_user(u, v) =>
                            /\ last'.status = 404
                            /\ UNCHANGED db

\* C25: a like_tweet, retweet, bookmark_tweet or reply_to_tweet request on a tweet
\* that does not exist, and a follow_user request on a user that does not exist,
\* is answered 404 and writes nothing: no Tweet, Reply, edge or Notification row.
MissingTargetNotFound == [][MissingTargetStep]_vars

\* a reply to a tweet that was deleted is refused, other tweets being there
MissingTargetWitness ==
    /\ last.op = "reply_to_tweet"
    /\ last.status = 404
    /\ DOMAIN tweets # {}
    /\ \E t \in TweetIds : t < next_tweet_id /\ t \notin DOMAIN tweets
    /\ replies = {}
    /\ notifications = EmptyBag

UsersUnique ==
    \A i, j \in DOMAIN users :
        i # j => (users[i].email # users[j].email /\ users[i].username # users[j].username)

RegisterStep ==
    /\ UsersUnique'
    /\ last'.op = "register" =>
            \A e \in Emails, n \in Usernames :
                (/\ \E u \in DOMAIN users : users[u].email = e \/ users[u].username = n
                 /\ register(e, n)) =>
                    /\ last'.status = 400
                    /\ users' = users

\* C26: after any sequence of register requests no two User rows share an email
\* and no two share a username; a register request whose email or username is
\* taken is answered 400 and leaves the users unchanged.
RegisterKeepsUsersUnique == [][RegisterStep]_vars

\* a fresh email with the username of the registered user is refused
RegisterWitness ==
    /\ last.op = "register"
    /\ last.status = 400
    /\ last.detail = "Username already taken"
    /\ Len(users) = 1

ConcurrentLikeStep ==
    \A r \in BagToSet(pending) :
        (/\ r.op = "like_tweet"
         /\ r.tweet \in DOMAIN tweets
         /\ Rows(likes, <<r.user, r.tweet>>) = 0
         /\ tweets[r.tweet].likes_count = RowsOn(likes, r.tweet)
         /\ commit(r)) =>
            tweets'[r.tweet].likes_count = RowsOn(likes', r.tweet)

\* C27: when like_tweet requests of different users for one tweet T interleave, each
\* reading T.likes_count before the other commits, no increment is lost: the commit
\* of a request of a user who has no Like row on T, made while likes_count equals
\* the number of Like rows on T, leaves likes_count equal to the number of Like rows.
ConcurrentLikesBothCounted == [][ConcurrentLikeStep]_vars

\* number of 'like' Notification rows with tweet_id = t in a notifications table
LikeNotifications(table, t) ==
    BagCardinality([n \in {x \in BagToSet(table) : x.type = "like" /\ x.tweet_id = t}
                        |-> table[n]])

\* the step is a successful like_tweet on t by a user who does not own t
LikedByOther(t) ==
    /\ last'.op = "like_tweet"
    /\ last'.status = 201
    /\ \E u \in UserIds : u # tweets[t].user_id /\ like_tweet(u, t)

LikeNotificationStep ==
    \A t \in DOMAIN tweets :
        t \in DOMAIN tweets' =>
            LikeNotifications(notifications', t) =
                LikeNotifications(notifications, t) + (IF LikedByOther(t) THEN 1 ELSE 0)

RECURSIVE Ancestors(_, _)
Ancestors(t, n) ==
    IF n = 0 THEN {}
    ELSE LET parents == {r.parent_tweet_id : r \in {x \in replies : x.tweet_id = t}}
         IN  parents \cup UNION {Ancestors(p, n - 1) : p \in parents}

ReplyForest ==
    /\ \A r \in replies : r.tweet_id \in DOMAIN tweets /\ r.parent_tweet_id \in DOMAIN tweets
    /\ \A r, s \in replies : r.tweet_id = s.tweet_id => r = s
    /\ \A r \in replies : r.tweet_id # r.parent_tweet_id
    /\ \A t \in DOMAIN tweets : t \notin Ancestors(t, Cardinality(TweetIds))

DeleteParentStep ==
    \A t \in DOMAIN tweets \ DOMAIN tweets' :
        /\ \A r \in replies' : r.parent_tweet_id # t
        /\ \A r \in replies :
                (r.parent_tweet_id = t /\ r.tweet_id # t) =>
                    /\ r.tweet_id \in DOMAIN tweets'
                    /\ \A x \in replies' : x.tweet_id # r.tweet_id

\* C29: in every reachable state the Reply rows form a forest over existing tweets:
\* a tweet is the child of at most one Reply row, no Reply row links a tweet to
\* itself and parent links never cycle; deleting a parent tweet removes its Reply
\* rows and leaves each child reply tweet in existence, with no parent.
RepliesFormForest ==
    /\ []ReplyForest
    /\ [][DeleteParentStep]_vars

\* a reply tweet outlives the tweet it answered and has no Reply row
OrphanReplyWitness ==
    /\ last.op = "delete_tweet"
    /\ last.status = 200
    /\ \E c \in DOMAIN tweets :
            /\ c > MaxTweets
            /\ \A r \in replies : r.tweet_id # c

\* the step is a request made with the token of user u
RequestOf(u) ==
    \/ create_tweet(u)
    \/ \E user_data \in UpdateData : update_profile(u, user_data)
    \/ \E t \in TweetIds : like_tweet(u, t) \/ unlike_tweet(u, t) \/ delete_tweet(u, t)
    \/ \E v \in UserIds : follow_user(u, v)

\* the rows user u made: tweets, likes, follows and the notifications u sent
MadeBy(u, tw, lk, fl, nt) ==
    <<{t \in DOMAIN tw : tw[t].user_id = u},
      [k \in {x \in BagToSet(lk) : x[1] = u} |-> lk[k]],
      [k \in {x \in BagToSet(fl) : x[1] = u} |-> fl[k]],
      [n \in {x \in BagToSet(nt) : x.sender_id = u} |-> nt[n]]>>

DeactivatedStep ==
    \A u \in DOMAIN users :
        ~users[u].is_active =>
            /\ ~users'[u].is_active
            /\ RequestOf(u) => (last'.status = 403 /\ UNCHANGED db)
            /\ \A password_ok \in BOOLEAN :
                    login(users[u].email, password_ok) => (last'.status = 401 /\ UNCHANGED db)
            /\ \/ MadeBy(u, tweets', likes', follows', notifications')
                    = MadeBy(u, tweets, likes, follows, notifications)
               \/ /\ last'.op = "delete_tweet"
                  /\ last'.status = 200
                  /\ \E v \in UserIds \ {u}, t \in DOMAIN tweets : delete_tweet(v, t)

\* C30: once delete_user has deactivated user U, every request with U's token is
\* answered 403 and every login for U 401, both leaving the database unchanged; U
\* creates or removes no tweet, edge or notification, and is_active never becomes
\* true again.
DeactivatedUserIsLockedOut == [][DeactivatedStep]_vars

\* a user who liked a tweet was deactivated, and their next like is refused
DeactivatedWitness ==
    /\ last = [op |-> "like_tweet", status |-> 403, detail |-> "Inactive user"]
    /\ \E u \in DOMAIN users :
            /\ ~users[u].is_active
            /\ \E t \in DOMAIN tweets : Rows(likes, <<u, t>>) > 0
====
